---------------------------- MODULE Spec2Model ----------------------------
(***************************************************************************)
(* ciao_contrib/downloadutils.py: retrieve_url and manual_download.        *)
(*                                                                         *)
(* Text is a sequence of one-character strings and a payload a sequence    *)
(* of byte values, so that str.find, str.format, str() and repr() are      *)
(* computed and not assumed.  Every caller of retrieve_url is an           *)
(* execution context with its own frame (url, timeout, ue, args); the      *)
(* module logger is the one process-wide object, and its records are kept  *)
(* per emitting context, in the order that context emitted them.           *)
(***************************************************************************)
EXTENDS Integers, Sequences, FiniteSets, TLC

(***************************************************************************)
(* Bounds of the model.                                                    *)
(***************************************************************************)
\* number of execution contexts that call retrieve_url concurrently
NumCtx == 2
\* largest timeout, in seconds, a caller passes
MaxTimeout == 1

(***************************************************************************)
(* String literals of the source and of the collaborators' messages.       *)
(***************************************************************************)
\* 'unknown url type: https'
NoSSLSupport ==
    <<"u", "n", "k", "n", "o", "w", "n", " ", "u", "r", "l", " ", "t", "y",
      "p", "e", ":", " ", "h", "t", "t", "p", "s">>

\* 'CERTIFICATE_VERIFY_FAILED'
CertVerifyFailed ==
    <<"C", "E", "R", "T", "I", "F", "I", "C", "A", "T", "E", "_", "V", "E",
      "R", "I", "F", "Y", "_", "F", "A", "I", "L", "E", "D">>

\* 'curl'
curl ==
    <<"c", "u", "r", "l">>

\* '--silent'
curl_silent ==
    <<"-", "-", "s", "i", "l", "e", "n", "t">>

\* '-L'
curl_L ==
    <<"-", "L">>

\* 'wget'
wget ==
    <<"w", "g", "e", "t">>

\* '--quiet'
wget_quiet ==
    <<"-", "-", "q", "u", "i", "e", "t">>

\* '-O-'
wget_O ==
    <<"-", "O", "-">>

\* 'Fall back to curl or wget to download: '
FmtFallBack ==
    <<"F", "a", "l", "l", " ", "b", "a", "c", "k", " ", "t", "o", " ", "c",
      "u", "r", "l", " ", "o", "r", " ", "w", "g", "e", "t", " ", "t", "o",
      " ", "d", "o", "w", "n", "l", "o", "a", "d", ":", " ">>

\* 'About to execute: '
FmtAboutToExecute ==
    <<"A", "b", "o", "u", "t", " ", "t", "o", " ", "e", "x", "e", "c", "u",
      "t", "e", ":", " ">>

\* 'Unable to call curl: '
FmtUnableCurl ==
    <<"U", "n", "a", "b", "l", "e", " ", "t", "o", " ", "c", "a", "l", "l",
      " ", "c", "u", "r", "l", ":", " ">>

\* 'Unable to call wget: '
FmtUnableWget ==
    <<"U", "n", "a", "b", "l", "e", " ", "t", "o", " ", "c", "a", "l", "l",
      " ", "w", "g", "e", "t", ":", " ">>

\* 'Retrieving URL: '
FmtRetrieving ==
    <<"R", "e", "t", "r", "i", "e", "v", "i", "n", "g", " ", "U", "R", "L",
      ":", " ">>

\* ' timeout='
FmtTimeout ==
    <<" ", "t", "i", "m", "e", "o", "u", "t", "=">>

\* 'Error opening URL: '
FmtErrorOpening ==
    <<"E", "r", "r", "o", "r", " ", "o", "p", "e", "n", "i", "n", "g", " ",
      "U", "R", "L", ":", " ">>

\* 'error.reason = '
FmtErrorReason ==
    <<"e", "r", "r", "o", "r", ".", "r", "e", "a", "s", "o", "n", " ", "=",
      " ">>

\* 'Unable to access the URL '
EmsgUnable ==
    <<"U", "n", "a", "b", "l", "e", " ", "t", "o", " ", "a", "c", "c", "e",
      "s", "s", " ", "t", "h", "e", " ", "U", "R", "L", " ">>

\* '.\n'
EmsgDotNewline ==
    <<".", "\n">>

\* 'Please install curl or wget (and if you '
EmsgInstall ==
    <<"P", "l", "e", "a", "s", "e", " ", "i", "n", "s", "t", "a", "l", "l",
      " ", "c", "u", "r", "l", " ", "o", "r", " ", "w", "g", "e", "t", " ",
      "(", "a", "n", "d", " ", "i", "f", " ", "y", "o", "u", " ">>

\* 'continue to see this message, contact the '
EmsgContinue ==
    <<"c", "o", "n", "t", "i", "n", "u", "e", " ", "t", "o", " ", "s", "e",
      "e", " ", "t", "h", "i", "s", " ", "m", "e", "s", "s", "a", "g", "e",
      ",", " ", "c", "o", "n", "t", "a", "c", "t", " ", "t", "h", "e", " ">>

\* 'CXC HelpDesk).'
EmsgHelpDesk ==
    <<"C", "X", "C", " ", "H", "e", "l", "p", "D", "e", "s", "k", ")", ".">>

\* '<urlopen error '
UrlopenErrorOpen ==
    <<"<", "u", "r", "l", "o", "p", "e", "n", " ", "e", "r", "r", "o", "r",
      " ">>

\* '[Errno '
ErrnoOpen ==
    <<"[", "E", "r", "r", "n", "o", " ">>

\* 'None'
NoneText ==
    <<"N", "o", "n", "e">>

\* 'Connection refused'
ConnectionRefused ==
    <<"C", "o", "n", "n", "e", "c", "t", "i", "o", "n", " ", "r", "e", "f",
      "u", "s", "e", "d">>

\* '[SSL: CERTIFICATE_VERIFY_FAILED] certificate verify failed (_ssl.c:719)'
SSLCertText ==
    <<"[", "S", "S", "L", ":", " ", "C", "E", "R", "T", "I", "F", "I", "C",
      "A", "T", "E", "_", "V", "E", "R", "I", "F", "Y", "_", "F", "A", "I",
      "L", "E", "D", "]", " ", "c", "e", "r", "t", "i", "f", "i", "c", "a",
      "t", "e", " ", "v", "e", "r", "i", "f", "y", " ", "f", "a", "i", "l",
      "e", "d", " ", "(", "_", "s", "s", "l", ".", "c", ":", "7", "1", "9",
      ")">>

\* 'unknown url type: ftps'
FtpsUnknown ==
    <<"u", "n", "k", "n", "o", "w", "n", " ", "u", "r", "l", " ", "t", "y",
      "p", "e", ":", " ", "f", "t", "p", "s">>

\* 'certificate_verify_failed'
LowerCertText ==
    <<"c", "e", "r", "t", "i", "f", "i", "c", "a", "t", "e", "_", "v", "e",
      "r", "i", "f", "y", "_", "f", "a", "i", "l", "e", "d">>

\* 'No such file or directory'
NoSuchFile ==
    <<"N", "o", " ", "s", "u", "c", "h", " ", "f", "i", "l", "e", " ", "o",
      "r", " ", "d", "i", "r", "e", "c", "t", "o", "r", "y">>

\* 'https://a'
UrlA ==
    <<"h", "t", "t", "p", "s", ":", "/", "/", "a">>

\* 'http://b'
UrlB ==
    <<"h", "t", "t", "p", ":", "/", "/", "b">>

\* "http://q/'"
UrlQ ==
    <<"h", "t", "t", "p", ":", "/", "/", "q", "/", "'">>

\* 'timed out'
TimedOut ==
    <<"t", "i", "m", "e", "d", " ", "o", "u", "t">>

\* 'Please install curl.'
EmsgInstallCurl ==
    <<"P", "l", "e", "a", "s", "e", " ", "i", "n", "s", "t", "a", "l", "l",
      " ", "c", "u", "r", "l", ".">>

\* 'Please install'
PleaseInstall ==
    <<"P", "l", "e", "a", "s", "e", " ", "i", "n", "s", "t", "a", "l", "l">>

(***************************************************************************)
(* Python text and object helpers.                                         *)
(***************************************************************************)
\* the one-character texts used by the formatting helpers
Quote == "'"
DQuote == "\""
Backslash == "\\"

\* str.find(sub): the lowest 0-based index at which sub occurs, -1 if none
find(s, sub) ==
    LET hits == {i \in 0..(Len(s) - Len(sub)) :
                    SubSeq(s, i + 1, i + Len(sub)) = sub}
    IN  IF hits = {} THEN -1
        ELSE CHOOSE i \in hits : \A j \in hits : i <= j

Digit(d) == <<"0", "1", "2", "3", "4", "5", "6", "7", "8", "9">>[d + 1]

RECURSIVE IntStr(_)
\* str(n) for a non-negative int
IntStr(n) ==
    IF n < 10 THEN <<Digit(n)>> ELSE IntStr(n \div 10) \o <<Digit(n % 10)>>

RECURSIVE Escape(_)
\* the body of repr(str) between single quotes
Escape(s) ==
    IF s = <<>> THEN <<>>
    ELSE (IF Head(s) \in {Quote, Backslash} THEN <<Backslash, Head(s)>>
          ELSE <<Head(s)>>) \o Escape(Tail(s))

\* repr(s) of a str
ReprStr(s) ==
    IF find(s, <<Quote>>) # -1 /\ find(s, <<DQuote>>) = -1
    THEN <<DQuote>> \o s \o <<DQuote>>
    ELSE <<Quote>> \o Escape(s) \o <<Quote>>

RECURSIVE ReprItems(_)
ReprItems(l) ==
    IF l = <<>> THEN <<>>
    ELSE IF Len(l) = 1 THEN ReprStr(l[1])
    ELSE ReprStr(l[1]) \o <<",", " ">> \o ReprItems(Tail(l))

\* "{}".format(l) of a list of str
ReprList(l) == <<"[">> \o ReprItems(l) \o <<"]">>

\* Python objects carried by failures: a str, or an exception's arguments
NoObj == [cls |-> "NoneType", code |-> 0, text |-> <<>>, filename |-> <<>>,
          cmd |-> <<>>]
StrObj(t) == [NoObj EXCEPT !.cls = "str", !.text = t]
OSErrorObj(c, errno, strerror) ==
    [NoObj EXCEPT !.cls = c, !.code = errno, !.text = strerror]

\* str(obj): a str is itself; an SSLError prints its strerror only; any
\* other OSError prints "[Errno n] strerror" and, when set, ": 'filename'"
PyStr(o) ==
    CASE o.cls = "NoneType" -> NoneText
      [] o.cls = "str" -> o.text
      [] o.cls = "SSLCertVerificationError" -> o.text
      [] OTHER ->
           ErrnoOpen \o IntStr(o.code) \o <<"]", " ">> \o o.text
             \o (IF o.filename = <<>> THEN <<>>
                 ELSE <<":", " ">> \o ReprStr(o.filename))

\* exceptions: the class and the object the exception carries (the reason of
\* a URLError, the arguments of the others)
NoExc == [type |-> "none", value |-> NoObj]
URLError(r) == [type |-> "URLError", value |-> r]
ValueError(t) == [type |-> "ValueError", value |-> StrObj(t)]
RuntimeError(t) == [type |-> "RuntimeError", value |-> StrObj(t)]
FileNotFoundError(prog) ==
    [type |-> "FileNotFoundError",
     value |-> [OSErrorObj("FileNotFoundError", 2, NoSuchFile)
                   EXCEPT !.filename = prog]]
CalledProcessError(rc, cmdline) ==
    [type |-> "CalledProcessError",
     value |-> [NoObj EXCEPT !.cls = "CalledProcessError", !.code = rc,
                             !.cmd = cmdline]]

\* str(exc)
ExcStr(e) ==
    IF e.type = "URLError"
    THEN UrlopenErrorOpen \o PyStr(e.value) \o <<">">>
    ELSE PyStr(e.value)

\* str(timeout): None or a number of seconds
TimeoutStr(t) == IF t = <<>> THEN NoneText ELSE IntStr(t[1])

\* responses: an HTTPResponse holds what was received so far and what is
\* still to be read from the connection; a BytesIO holds all of its bytes
NoResponse == [cls |-> "none", buffered |-> <<>>, pending |-> <<>>]
HTTPResponse(body, got) ==
    [cls |-> "HTTPResponse", buffered |-> SubSeq(body, 1, got),
     pending |-> SubSeq(body, got + 1, Len(body))]
BytesIO(rsp) == [cls |-> "BytesIO", buffered |-> rsp, pending |-> <<>>]
\* what reading the response to its end yields
Content(r) == r.buffered \o r.pending
(***************************************************************************)
(* Inputs and the collaborators.                                           *)
(***************************************************************************)
Ctx == 1..NumCtx
\* the context of the single-caller specification
Main == CHOOSE c \in Ctx : \A d \in Ctx : c <= d
Urls == {UrlA, UrlB, UrlQ}
\* timeout=None is <<>>, timeout=n is <<n>>
None == <<>>
Timeouts == {None} \cup {<<n>> : n \in 1..MaxTimeout}
\* payloads a server or an external program delivers
Bodies == {<<104, 105>>, <<7>>}

\* the reason attribute of a URLError: a str or an exception object
Reasons ==
    {StrObj(NoSSLSupport),
     OSErrorObj("SSLCertVerificationError", 1, SSLCertText),
     OSErrorObj("ConnectionRefusedError", 111, ConnectionRefused),
     OSErrorObj("timeout", 110, TimedOut),
     StrObj(FtpsUnknown),
     StrObj(LowerCertText)}

\* what urllib.request.urlopen can do: return a response of which any part
\* of the body has been received, raise URLError, or raise something else
UrlopenResults ==
    {[kind |-> "return", response |-> HTTPResponse(bk[1], bk[2]),
      exc |-> NoExc] :
        bk \in {x \in Bodies \X (0..2) : x[2] <= Len(x[1])}}
    \cup {[kind |-> "raise", response |-> NoResponse, exc |-> URLError(r)] :
            r \in Reasons}
    \cup {[kind |-> "raise", response |-> NoResponse,
           exc |-> ValueError(NoSSLSupport)]}

\* what subprocess.check_output(cmdline) can do: return the captured
\* standard output, raise FileNotFoundError when the program is absent, or
\* raise CalledProcessError when it exits non-zero
CheckOutputResults(cmdline, bodies) ==
    {[kind |-> "return", stdout |-> b, exc |-> NoExc] : b \in bodies}
    \cup {[kind |-> "raise", stdout |-> <<>>,
           exc |-> FileNotFoundError(cmdline[1])]}
    \cup {[kind |-> "raise", stdout |-> <<>>,
           exc |-> CalledProcessError(7, cmdline)]}

\* the smaller samples the concurrent callers draw from
ConcUrls == {UrlA, UrlB}
ConcTimeouts == {None, <<MaxTimeout>>}
ConcBodies == {<<104, 105>>}
ConcUrlopenResults ==
    {[kind |-> "return", response |-> HTTPResponse(b, 0), exc |-> NoExc] :
        b \in ConcBodies}
    \cup {[kind |-> "raise", response |-> NoResponse, exc |-> URLError(r)] :
            r \in {StrObj(NoSSLSupport),
                   OSErrorObj("ConnectionRefusedError", 111,
                              ConnectionRefused)}}

(***************************************************************************)
(* The decisions and values of the source.                                 *)
(***************************************************************************)
\* variant: the command line is logged at the coarse verbosity
v4_coarse(msg) == [level |-> 3, msg |-> msg]
\* v3 and v4: a record of the module logger at that verbosity
v3(msg) == [level |-> 3, msg |-> msg]
v4(msg) == [level |-> 4, msg |-> msg]

\* variant: the handler catches every exception
CatchesURLError_any(e) == e.type # "none"
\* except urllib.error.URLError
CatchesURLError(e) == e.type = "URLError"

\* variant: the handler names the wrong exception class
CatchesFileNotFound_wrong(e) == e.type = "CalledProcessError"
\* variant: the handler catches every exception
CatchesFileNotFound_any(e) == e.type # "none"
\* except FileNotFoundError
CatchesFileNotFound(e) == e.type = "FileNotFoundError"

\* the positional arguments of the urlopen call
UrlopenArgs(u) == <<u>>

\* variant: the timeout is never handed to urlopen
UrlopenKwargs_dropped(t) == {}
\* the keyword arguments of the urlopen call: none when timeout is None
UrlopenKwargs(t) == IF t = None THEN {} ELSE {<<"timeout", t[1]>>}

\* how a call ends
NoOutcome == [kind |-> "none", response |-> NoResponse, exc |-> NoExc]
Return(r) == [kind |-> "return", response |-> r, exc |-> NoExc]
Raise(e) == [kind |-> "raise", response |-> NoResponse, exc |-> e]

\* variant: only what has been received so far is returned
NativeResult_buffered(r) == Return(BytesIO(r.buffered))
\* what the try block returns when urlopen returns: the object it got
NativeResult(r) == Return(r)

\* variant: the timeout is handed on to check_output
CheckOutputKwargs_timeout(t) ==
    IF t = None THEN {} ELSE {<<"timeout", t[1]>>}
\* the keyword arguments of check_output(args): none, whatever the timeout
CheckOutputKwargs(t) == {}

\* variant: every reason is taken for missing secure transport
IndicatesNoSSL_any(reason) == Len(reason) >= 0
\* variant: only the second substring is looked for
IndicatesNoSSL_cert(reason) == find(reason, CertVerifyFailed) # -1
\* variant: only the first substring is looked for
IndicatesNoSSL_scheme(reason) == find(reason, NoSSLSupport) # -1
\* the test on str(ue.reason)
IndicatesNoSSL(reason) ==
    \/ find(reason, NoSSLSupport) # -1
    \/ find(reason, CertVerifyFailed) # -1

\* the command lines
CurlArgs(u) == <<curl, curl_silent, curl_L, u>>
WgetArgs(u) == <<wget, wget_quiet, wget_O, u>>

\* variant: the message names one program only
emsg_curl(u) == EmsgUnable \o u \o EmsgDotNewline \o EmsgInstallCurl
\* emsg
emsg(u) ==
    EmsgUnable \o u \o EmsgDotNewline \o EmsgInstall \o EmsgContinue
      \o EmsgHelpDesk

\* variant: the failure is replaced by a message for the user
Reraise_friendly(e) == Raise(RuntimeError(EmsgUnable))
\* the bare raise of the URLError handler
Reraise(e) == Raise(e)

\* variant: args is a module-level name, one for all calls
FrameOf_shared(c) == Main
\* args is a local of manual_download: one per call frame
FrameOf(c) == c

(***************************************************************************)
(* State.                                                                  *)
(***************************************************************************)
VARIABLES
    pc,        \* pc[c]: where context c is in retrieve_url
    url,       \* url[c]: the url argument of the call of c
    timeout,   \* timeout[c]: its timeout argument
    ue,        \* ue[c]: the URLError caught by the call of c
    args,      \* args[f]: the command line held by frame f
    invoked,   \* invoked[c]: the collaborator calls made by c, in order
    outcome,   \* outcome[c]: what the call of c returned or raised
    logger     \* logger[c]: the records c emitted, in order

vars == <<pc, url, timeout, ue, args, invoked, outcome, logger>>

Init ==
    /\ pc = [c \in Ctx |-> "idle"]
    /\ url = [c \in Ctx |-> <<>>]
    /\ timeout = [c \in Ctx |-> None]
    /\ ue = [c \in Ctx |-> NoExc]
    /\ args = [c \in Ctx |-> <<>>]
    /\ invoked = [c \in Ctx |-> <<>>]
    /\ outcome = [c \in Ctx |-> NoOutcome]
    /\ logger = [c \in Ctx |-> <<>>]

Emit(c, records) == logger' = [logger EXCEPT ![c] = @ \o records]
Invoke(c, call) == invoked' = [invoked EXCEPT ![c] = Append(@, call)]
\* variant: a call that fails starts over
Finish_retry(c, o) ==
    /\ outcome' = [outcome EXCEPT ![c] = o]
    /\ pc' = [pc EXCEPT ![c] = IF o.kind = "raise" THEN "try" ELSE "done"]
\* the call returns or raises
Finish(c, o) ==
    /\ outcome' = [outcome EXCEPT ![c] = o]
    /\ pc' = [pc EXCEPT ![c] = "done"]

\* a context calls retrieve_url(u, timeout=t)
Call(c, urls, timeouts) ==
    /\ pc[c] = "idle"
    /\ \E u \in urls, t \in timeouts :
         /\ url' = [url EXCEPT ![c] = u]
         /\ timeout' = [timeout EXCEPT ![c] = t]
    /\ pc' = [pc EXCEPT ![c] = "try"]
    /\ UNCHANGED <<ue, args, invoked, outcome, logger>>

\* the try block: log, then urlopen returns or raises
Try(c, results) ==
    /\ pc[c] = "try"
    /\ Emit(c, <<v3(FmtRetrieving \o url[c] \o FmtTimeout
                      \o TimeoutStr(timeout[c]))>>)
    /\ \E r \in results :
         /\ Invoke(c, [func |-> "urlopen", args |-> UrlopenArgs(url[c]),
                       kwargs |-> UrlopenKwargs(timeout[c]),
                       result |-> r])
         /\ IF r.kind = "return"
            THEN Finish(c, NativeResult(r.response)) /\ UNCHANGED ue
            ELSE IF CatchesURLError(r.exc)
            THEN /\ ue' = [ue EXCEPT ![c] = r.exc]
                 /\ pc' = [pc EXCEPT ![c] = "except"]
                 /\ UNCHANGED outcome
            ELSE Finish(c, Raise(r.exc)) /\ UNCHANGED ue
    /\ UNCHANGED <<url, timeout, args>>

\* the URLError handler: log, then fall back or re-raise
Except(c) ==
    /\ pc[c] = "except"
    /\ Emit(c, <<v3(FmtErrorOpening \o ExcStr(ue[c])),
                 v3(FmtErrorReason \o PyStr(ue[c].value))>>)
    /\ LET reason == PyStr(ue[c].value)
       IN  IF IndicatesNoSSL(reason)
           THEN pc' = [pc EXCEPT ![c] = "manual_download"]
                /\ UNCHANGED outcome
           ELSE Finish(c, Reraise(ue[c]))
    /\ UNCHANGED <<url, timeout, ue, args, invoked>>

\* manual_download up to the first check_output
ManualDownload(c) ==
    /\ pc[c] = "manual_download"
    /\ args' = [args EXCEPT ![FrameOf(c)] = CurlArgs(url[c])]
    /\ Emit(c, <<v3(FmtFallBack \o url[c]),
                 v4(FmtAboutToExecute \o ReprList(CurlArgs(url[c])))>>)
    /\ pc' = [pc EXCEPT ![c] = "curl"]
    /\ UNCHANGED <<url, timeout, ue, invoked, outcome>>

\* check_output of the curl command line and what follows it
Curl(c, bodies) ==
    /\ pc[c] = "curl"
    /\ \E r \in CheckOutputResults(args[FrameOf(c)], bodies) :
         /\ Invoke(c, [func |-> "check_output", args |-> args[FrameOf(c)],
                       kwargs |-> CheckOutputKwargs(timeout[c]),
                       result |-> r])
         /\ IF r.kind = "return"
            THEN Finish(c, Return(BytesIO(r.stdout)))
                 /\ UNCHANGED <<args, logger>>
            ELSE IF CatchesFileNotFound(r.exc)
            THEN /\ args' = [args EXCEPT ![FrameOf(c)] = WgetArgs(url[c])]
                 /\ Emit(c, <<v3(FmtUnableCurl \o ExcStr(r.exc)),
                              v4(FmtAboutToExecute
                                   \o ReprList(WgetArgs(url[c])))>>)
                 /\ pc' = [pc EXCEPT ![c] = "wget"]
                 /\ UNCHANGED outcome
            ELSE Finish(c, Raise(r.exc)) /\ UNCHANGED <<args, logger>>
    /\ UNCHANGED <<url, timeout, ue>>

\* check_output of the wget command line and what follows it
Wget(c, bodies) ==
    /\ pc[c] = "wget"
    /\ \E r \in CheckOutputResults(args[FrameOf(c)], bodies) :
         /\ Invoke(c, [func |-> "check_output", args |-> args[FrameOf(c)],
                       kwargs |-> CheckOutputKwargs(timeout[c]),
                       result |-> r])
         /\ IF r.kind = "return"
            THEN Finish(c, Return(BytesIO(r.stdout))) /\ UNCHANGED logger
            ELSE IF CatchesFileNotFound(r.exc)
            THEN /\ Emit(c, <<v3(FmtUnableWget \o ExcStr(r.exc))>>)
                 /\ Finish(c, Raise(RuntimeError(emsg(url[c]))))
            ELSE Finish(c, Raise(r.exc)) /\ UNCHANGED logger
    /\ UNCHANGED <<url, timeout, ue, args>>

\* one caller: every input and every collaborator result
Next ==
    \/ Call(Main, Urls, Timeouts)
    \/ Try(Main, UrlopenResults)
    \/ Except(Main)
    \/ ManualDownload(Main)
    \/ Curl(Main, Bodies)
    \/ Wget(Main, Bodies)

Spec == Init /\ [][Next]_vars

\* the caller is synchronous: as long as its collaborators return or
\* raise, its next step is taken
FairSpec == Spec /\ WF_vars(Next)

\* every context calls, in any interleaving of the steps
NextConc ==
    \E c \in Ctx :
        \/ Call(c, ConcUrls, ConcTimeouts)
        \/ Try(c, ConcUrlopenResults)
        \/ Except(c)
        \/ ManualDownload(c)
        \/ Curl(c, ConcBodies)
        \/ Wget(c, ConcBodies)

SpecConc == Init /\ [][NextConc]_vars

(***************************************************************************)
(* retrieve_url run to its end as a function of its arguments and of the   *)
(* results its collaborators gave it, in the order it asked for them: the  *)
(* calls it makes and how it ends (NoOutcome while a result is awaited).   *)
(***************************************************************************)
SeqRun(u, t, rs) ==
    LET native == [func |-> "urlopen", args |-> UrlopenArgs(u),
                   kwargs |-> UrlopenKwargs(t)]
        first == [func |-> "check_output", args |-> CurlArgs(u),
                  kwargs |-> CheckOutputKwargs(t)]
        second == [func |-> "check_output", args |-> WgetArgs(u),
                   kwargs |-> CheckOutputKwargs(t)]
    IN  IF Len(rs) = 0
        THEN [calls |-> <<>>, outcome |-> NoOutcome]
        ELSE IF rs[1].kind = "return"
        THEN [calls |-> <<native>>, outcome |-> NativeResult(rs[1].response)]
        ELSE IF ~CatchesURLError(rs[1].exc)
        THEN [calls |-> <<native>>, outcome |-> Raise(rs[1].exc)]
        ELSE IF ~IndicatesNoSSL(PyStr(rs[1].exc.value))
        THEN [calls |-> <<native>>, outcome |-> Reraise(rs[1].exc)]
        ELSE IF Len(rs) = 1
        THEN [calls |-> <<native>>, outcome |-> NoOutcome]
        ELSE IF rs[2].kind = "return"
        THEN [calls |-> <<native, first>>,
              outcome |-> Return(BytesIO(rs[2].stdout))]
        ELSE IF ~CatchesFileNotFound(rs[2].exc)
        THEN [calls |-> <<native, first>>, outcome |-> Raise(rs[2].exc)]
        ELSE IF Len(rs) = 2
        THEN [calls |-> <<native, first>>, outcome |-> NoOutcome]
        ELSE IF rs[3].kind = "return"
        THEN [calls |-> <<native, first, second>>,
              outcome |-> Return(BytesIO(rs[3].stdout))]
        ELSE IF ~CatchesFileNotFound(rs[3].exc)
        THEN [calls |-> <<native, first, second>>,
              outcome |-> Raise(rs[3].exc)]
        ELSE [calls |-> <<native, first, second>>,
              outcome |-> Raise(RuntimeError(emsg(u)))]

(***************************************************************************)
(* Vocabulary of the properties.                                           *)
(***************************************************************************)
\* sub occurs somewhere in s
Contains(s, sub) ==
    \E i \in 1..(Len(s) + 1 - Len(sub)) : SubSeq(s, i, i + Len(sub) - 1) = sub

IsExternal(e) == e.func = "check_output"
\* the external program invocations of context c, in order
External(c) == SelectSeq(invoked[c], IsExternal)
\* the last collaborator call of context c
LastCall(c) == invoked[c][Len(invoked[c])]

\* the native fetch of c has failed with a URLError
NativeURLError(c) ==
    /\ Len(invoked[c]) >= 1
    /\ invoked[c][1].func = "urlopen"
    /\ invoked[c][1].result.kind = "raise"
    /\ invoked[c][1].result.exc.type = "URLError"
\* the text of the reason of that URLError
NativeReason(c) == PyStr(invoked[c][1].result.exc.value)
SecureTransportReason(c) ==
    \/ Contains(NativeReason(c), NoSSLSupport)
    \/ Contains(NativeReason(c), CertVerifyFailed)
\* manual_download has been entered by c
EnteredManualDownload(c) ==
    \E i \in 1..Len(logger[c]) : logger[c][i] = v3(FmtFallBack \o url[c])

(***************************************************************************)
(* C1: when the native fetch fails with a URLError whose reason text       *)
(* contains "unknown url type: https" or "CERTIFICATE_VERIFY_FAILED", the  *)
(* handler enters manual_download, and when the external program that      *)
(* manual_download ran last succeeds the call returns its output instead   *)
(* of raising.                                                             *)
(***************************************************************************)
C1_FallbackOnSecureTransportFailure ==
    \A c \in Ctx :
        (NativeURLError(c) /\ SecureTransportReason(c) /\ pc[c] # "except")
        => /\ pc[c] \in {"manual_download", "curl", "wget", "done"}
           /\ pc[c] # "manual_download" => EnteredManualDownload(c)
           /\ pc[c] = "done" =>
                /\ Len(External(c)) >= 1
                /\ LastCall(c).result.kind = "return" =>
                     outcome[c] = Return(BytesIO(LastCall(c).result.stdout))

C1_Witness ==
    \E c \in Ctx :
        /\ pc[c] = "done"
        /\ NativeURLError(c)
        /\ Contains(NativeReason(c), CertVerifyFailed)
        /\ EnteredManualDownload(c)
        /\ outcome[c].kind = "return"

(***************************************************************************)
(* C2: when the native fetch fails with a URLError whose reason text       *)
(* contains neither substring, the call raises that very failure and no    *)
(* external program is invoked.                                            *)
(***************************************************************************)
C2_OtherTransportFailureReraised ==
    \A c \in Ctx :
        (NativeURLError(c) /\ ~SecureTransportReason(c))
        => /\ pc[c] \in {"except", "done"}
           /\ External(c) = <<>>
           /\ ~EnteredManualDownload(c)
           /\ pc[c] = "done" => outcome[c] = Raise(invoked[c][1].result.exc)

C2_Witness ==
    \E c \in Ctx :
        /\ pc[c] = "done"
        /\ NativeURLError(c)
        /\ Contains(NativeReason(c), ConnectionRefused)
        /\ outcome[c].kind = "raise"

(***************************************************************************)
(* C3: when invoking curl raises FileNotFoundError, wget is invoked with   *)
(* the same url, and when wget succeeds the call returns a response whose  *)
(* content is exactly the standard output captured from wget.              *)
(***************************************************************************)
C3_WgetAfterCurlNotFound ==
    \A c \in Ctx :
        (/\ pc[c] = "done"
         /\ Len(External(c)) >= 1
         /\ External(c)[1].args[1] = curl
         /\ External(c)[1].result.exc.type = "FileNotFoundError")
        => /\ Len(External(c)) = 2
           /\ External(c)[2].args[1] = wget
           /\ External(c)[2].args[Len(External(c)[2].args)] = url[c]
           /\ External(c)[2].result.kind = "return" =>
                /\ outcome[c].kind = "return"
                /\ outcome[c].response.cls = "BytesIO"
                /\ Content(outcome[c].response) = External(c)[2].result.stdout

C3_Witness ==
    \E c \in Ctx :
        /\ pc[c] = "done"
        /\ Len(External(c)) = 2
        /\ External(c)[1].result.exc.type = "FileNotFoundError"
        /\ External(c)[2].result.kind = "return"
        /\ outcome[c].kind = "return"

(***************************************************************************)
(* C4: when both curl and wget raise FileNotFoundError, the call raises    *)
(* one error whose message names curl and wget and says to install one;    *)
(* it is neither of the two FileNotFoundErrors.                            *)
(***************************************************************************)
C4_InstallMessageWhenBothMissing ==
    \A c \in Ctx :
        (/\ pc[c] = "done"
         /\ Len(External(c)) = 2
         /\ External(c)[1].result.exc.type = "FileNotFoundError"
         /\ External(c)[2].result.exc.type = "FileNotFoundError")
        => /\ outcome[c].kind = "raise"
           /\ outcome[c].exc.type # "FileNotFoundError"
           /\ outcome[c].exc # External(c)[1].result.exc
           /\ outcome[c].exc # External(c)[2].result.exc
           /\ Contains(ExcStr(outcome[c].exc), curl)
           /\ Contains(ExcStr(outcome[c].exc), wget)
           /\ Contains(ExcStr(outcome[c].exc), PleaseInstall)

C4_Witness ==
    \E c \in Ctx :
        /\ pc[c] = "done"
        /\ Len(External(c)) = 2
        /\ External(c)[1].result.exc.type = "FileNotFoundError"
        /\ External(c)[2].result.exc.type = "FileNotFoundError"
        /\ outcome[c].exc.type = "RuntimeError"

(***************************************************************************)
(* C5: a failure of an external program other than FileNotFoundError ends  *)
(* the call with that very failure; it is the last invocation of the       *)
(* call, so a curl that is found but fails is never followed by wget.      *)
(***************************************************************************)
C5_ToolFailurePropagated ==
    \A c \in Ctx :
        \A i \in 1..Len(External(c)) :
            (/\ External(c)[i].result.kind = "raise"
             /\ External(c)[i].result.exc.type # "FileNotFoundError")
            => /\ pc[c] = "done"
               /\ i = Len(External(c))
               /\ outcome[c] = Raise(External(c)[i].result.exc)

C5_Witness ==
    \E c \in Ctx :
        /\ pc[c] = "done"
        /\ Len(External(c)) = 1
        /\ External(c)[1].args[1] = curl
        /\ External(c)[1].result.exc.type = "CalledProcessError"
        /\ outcome[c].exc.type = "CalledProcessError"

(***************************************************************************)
(* C6: when the native fetch succeeds, the call returns a response whose   *)
(* content is the body served for its url, and it invokes no external      *)
(* program.                                                                *)
(***************************************************************************)
C6_NativeSuccessReturnsBody ==
    \A c \in Ctx :
        (/\ Len(invoked[c]) >= 1
         /\ invoked[c][1].func = "urlopen"
         /\ invoked[c][1].result.kind = "return")
        => /\ pc[c] = "done"
           /\ invoked[c][1].args = <<url[c]>>
           /\ outcome[c].kind = "return"
           /\ Content(outcome[c].response)
                = Content(invoked[c][1].result.response)
           /\ Len(invoked[c]) = 1

C6_Witness ==
    \E c \in Ctx :
        /\ pc[c] = "done"
        /\ Len(invoked[c]) = 1
        /\ invoked[c][1].result.kind = "return"
        /\ invoked[c][1].result.response.pending # <<>>
        /\ outcome[c].kind = "return"

(***************************************************************************)
(* C7: every response retrieve_url returns is an in-memory buffer that     *)
(* holds the complete payload when it is returned; none is a stream with   *)
(* bytes still to be read from the network.                                *)
(***************************************************************************)
C7_ReturnedResponseIsInMemory ==
    \A c \in Ctx :
        (pc[c] = "done" /\ outcome[c].kind = "return")
        => /\ outcome[c].response.cls = "BytesIO"
           /\ outcome[c].response.pending = <<>>

(***************************************************************************)
(* C8: the native fetch is called with the timeout keyword set to the      *)
(* caller's timeout when one was passed, and without a timeout keyword     *)
(* when none was.                                                          *)
(***************************************************************************)
C8_TimeoutPassedToNativeFetch ==
    \A c \in Ctx :
        \A i \in 1..Len(invoked[c]) :
            invoked[c][i].func = "urlopen"
            => IF timeout[c] = None
               THEN invoked[c][i].kwargs = {}
               ELSE invoked[c][i].kwargs = {<<"timeout", timeout[c][1]>>}

C8_Witness ==
    \E c \in Ctx :
        /\ Len(invoked[c]) >= 1
        /\ invoked[c][1].func = "urlopen"
        /\ timeout[c] # None
        /\ invoked[c][1].kwargs # {}

(***************************************************************************)
(* C9: the external command lines are ['curl', '--silent', '-L', url] and  *)
(* then ['wget', '--quiet', '-O-', url] with the url of the call, whatever *)
(* its timeout, and neither invocation is given a timeout.                 *)
(***************************************************************************)
C9_CommandLinesWithoutTimeout ==
    \A c \in Ctx :
        \A i \in 1..Len(External(c)) :
            /\ External(c)[i].kwargs = {}
            /\ i <= 2
            /\ External(c)[i].args =
                 IF i = 1 THEN <<curl, curl_silent, curl_L, url[c]>>
                 ELSE <<wget, wget_quiet, wget_O, url[c]>>

C9_Witness ==
    \E c \in Ctx :
        /\ pc[c] = "done"
        /\ timeout[c] # None
        /\ Len(External(c)) = 2

(***************************************************************************)
(* C10: under every interleaving of concurrent calls, the calls a context  *)
(* has made and the way its call ended are those of retrieve_url run alone *)
(* on its own url and timeout with the results its own collaborator calls  *)
(* were given.                                                             *)
(***************************************************************************)
C10_ConcurrentCallsIndependent ==
    \A c \in Ctx :
        LET rs == [i \in 1..Len(invoked[c]) |-> invoked[c][i].result]
            made == [i \in 1..Len(invoked[c]) |->
                       [func |-> invoked[c][i].func,
                        args |-> invoked[c][i].args,
                        kwargs |-> invoked[c][i].kwargs]]
            alone == SeqRun(url[c], timeout[c], rs)
        IN  /\ made = alone.calls
            /\ pc[c] = "done" => outcome[c] = alone.outcome
            /\ pc[c] # "done" => outcome[c] = NoOutcome

C10_Witness ==
    \E c, d \in Ctx :
        /\ c # d
        /\ url[c] # url[d]
        /\ pc[c] = "done"
        /\ Len(External(c)) = 2
        /\ pc[d] = "curl"

(***************************************************************************)
(* Vocabulary of the properties on the order of the steps.                 *)
(***************************************************************************)
\* how far a call has come
Rank(p) ==
    CASE p = "idle" -> 0
      [] p = "try" -> 1
      [] p = "except" -> 2
      [] p = "manual_download" -> 3
      [] p = "curl" -> 4
      [] p = "wget" -> 5
      [] p = "done" -> 6

\* s is t or t with one more element
ExtendsByAtMostOne(s, t) ==
    /\ Len(t) <= Len(s)
    /\ Len(s) <= Len(t) + 1
    /\ SubSeq(s, 1, Len(t)) = t

\* the collaborator calls of c are the native fetch, then curl, then wget,
\* each once at most and each after the failure that leads to it
LinearAttempts(c) ==
    /\ Len(invoked[c]) <= 3
    /\ \A i \in 1..Len(invoked[c]) :
         CASE i = 1 -> invoked[c][1].func = "urlopen"
           [] i = 2 ->
                /\ invoked[c][2].func = "check_output"
                /\ invoked[c][2].args[1] = curl
                /\ NativeURLError(c)
                /\ SecureTransportReason(c)
           [] i = 3 ->
                /\ invoked[c][3].func = "check_output"
                /\ invoked[c][3].args[1] = wget
                /\ invoked[c][2].result.kind = "raise"
                /\ invoked[c][2].result.exc.type = "FileNotFoundError"

\* a step never takes a call back, and never undoes or repeats a call
NoReentry ==
    \A c \in Ctx :
        /\ Rank(pc'[c]) >= Rank(pc[c])
        /\ ExtendsByAtMostOne(invoked'[c], invoked[c])
        /\ invoked'[c] # invoked[c] => Rank(pc'[c]) > Rank(pc[c])

(***************************************************************************)
(* C11: within one call the attempts are the native fetch, then curl, then *)
(* wget, each at most once; curl only after the native fetch failed with a *)
(* secure-transport reason, wget only after curl raised FileNotFoundError; *)
(* and no step takes the call back to an earlier one.                      *)
(***************************************************************************)
C11_LinearFallbackOrder ==
    /\ [](\A c \in Ctx : LinearAttempts(c))
    /\ [][NoReentry]_vars

C11_Witness ==
    \E c \in Ctx :
        /\ pc[c] = "done"
        /\ Len(invoked[c]) = 3
        /\ invoked[c][3].args[1] = wget

(***************************************************************************)
(* C12: once the native failure is classified as missing secure transport, *)
(* the call never ends with that URLError: it ends as manual_download      *)
(* does, with the output of the program that ran last, with that           *)
(* program's own failure, or with the install message when both are        *)
(* absent.                                                                 *)
(***************************************************************************)
C12_TransportErrorReplacedByFallback ==
    \A c \in Ctx :
        (NativeURLError(c) /\ SecureTransportReason(c) /\ pc[c] = "done")
        => /\ Len(External(c)) >= 1
           /\ outcome[c] # Raise(invoked[c][1].result.exc)
           /\ outcome[c].exc.type # "URLError"
           /\ LET last == LastCall(c)
              IN  CASE last.result.kind = "return" ->
                         outcome[c] = Return(BytesIO(last.result.stdout))
                    [] last.result.exc.type # "FileNotFoundError" ->
                         outcome[c] = Raise(last.result.exc)
                    [] OTHER ->
                         /\ Len(External(c)) = 2
                         /\ outcome[c].kind = "raise"
                         /\ outcome[c].exc.type = "RuntimeError"
                         /\ Contains(ExcStr(outcome[c].exc), PleaseInstall)

C12_Witness ==
    \E c \in Ctx :
        /\ pc[c] = "done"
        /\ NativeURLError(c)
        /\ Contains(NativeReason(c), NoSSLSupport)
        /\ Len(External(c)) = 2
        /\ outcome[c].exc.type = "CalledProcessError"

(***************************************************************************)
(* C13: when every collaborator call returns or raises, a call ends, after *)
(* three collaborator calls at most, in one of: a response holding all the *)
(* payload it was given, a collaborator's failure as it was raised, or the *)
(* install message.                                                        *)
(***************************************************************************)
\* the ways a call may end
EndsProperly(c) ==
    \/ /\ outcome[c].kind = "return"
       /\ outcome[c].exc = NoExc
       /\ LastCall(c).result.kind = "return"
       /\ Content(outcome[c].response)
            = (IF LastCall(c).func = "urlopen"
               THEN Content(LastCall(c).result.response)
               ELSE LastCall(c).result.stdout)
    \/ /\ outcome[c].kind = "raise"
       /\ outcome[c].response = NoResponse
       /\ LastCall(c).result.kind = "raise"
       /\ \/ outcome[c].exc = LastCall(c).result.exc
          \/ /\ outcome[c].exc = RuntimeError(outcome[c].exc.value.text)
             /\ Contains(ExcStr(outcome[c].exc), PleaseInstall)
             /\ Len(External(c)) = 2
             /\ LastCall(c).result.exc.type = "FileNotFoundError"

C13_CallTerminates ==
    /\ [](\A c \in Ctx :
            /\ Len(invoked[c]) <= 3
            /\ pc[c] = "done" => EndsProperly(c)
            /\ pc[c] # "done" => outcome[c] = NoOutcome)
    /\ \A c \in Ctx : (pc[c] = "try") ~> (pc[c] = "done")

C13_Witness ==
    \E c \in Ctx :
        /\ pc[c] = "done"
        /\ Len(invoked[c]) = 3
        /\ outcome[c].exc.type = "RuntimeError"

(***************************************************************************)
(* C14: every external program manual_download runs has had its command    *)
(* line logged at verbose4 before, in the same call: the i-th program run  *)
(* is the one the i-th verbose4 record announces.                          *)
(***************************************************************************)
IsFine(record) == record.level = 4
\* the verbose4 records of context c, in order
FineRecords(c) == SelectSeq(logger[c], IsFine)

C14_CommandLoggedBeforeExecution ==
    \A c \in Ctx :
        /\ Len(External(c)) <= Len(FineRecords(c))
        /\ \A i \in 1..Len(External(c)) :
             FineRecords(c)[i].msg
               = FmtAboutToExecute \o ReprList(External(c)[i].args)

C14_Witness ==
    \E c \in Ctx :
        /\ Len(External(c)) = 2
        /\ Len(FineRecords(c)) = 2
        /\ Contains(FineRecords(c)[2].msg, wget_O)
        /\ Contains(url[c], <<Quote>>)

(***************************************************************************)
(* C15: a native failure that is not a URLError ends the call as that very *)
(* failure and manual_download is not entered, also when its text contains *)
(* one of the two substrings.                                              *)
(***************************************************************************)
C15_OtherExceptionsNotHandled ==
    \A c \in Ctx :
        (/\ Len(invoked[c]) >= 1
         /\ invoked[c][1].result.kind = "raise"
         /\ invoked[c][1].result.exc.type # "URLError")
        => /\ pc[c] = "done"
           /\ outcome[c] = Raise(invoked[c][1].result.exc)
           /\ Len(invoked[c]) = 1
           /\ ~EnteredManualDownload(c)

C15_Witness ==
    \E c \in Ctx :
        /\ pc[c] = "done"
        /\ Len(invoked[c]) = 1
        /\ invoked[c][1].result.exc.type = "ValueError"
        /\ Contains(PyStr(invoked[c][1].result.exc.value), NoSSLSupport)
        /\ outcome[c].kind = "raise"
=============================================================================
